---- MODULE Spec2Model ----
(***************************************************************************)
(* Model of the two batch jobs of dr-rds-share-snapshot:                   *)
(*   Exporter  src/src_acc_take_share_rds_snapshot.py                      *)
(*   Importer  src/dst_acc_copy_shared_rds_snapshot_to_local.py            *)
(* The RDS snapshot catalog and the SNS topic are the environment; every   *)
(* mutating call (copy, share, delete, publish) is logged in `calls`.      *)
(* Identifiers are sequences of characters; Python's string and regex      *)
(* operations are computed character by character with Len, SubSeq and \o. *)
(***************************************************************************)
EXTENDS Integers, Sequences, FiniteSets, TLC

(***************************************************************************)
(* String operations                                                       *)
(***************************************************************************)

\* A Python str that the scripts take apart (a snapshot identifier, the key
\* ARN, the account id) is the sequence of its characters: a one-character
\* string for an ASCII character, "U+<code point>" for any other character.
\* Chars gives the characters of an ASCII text. The messages, which the
\* scripts only format and publish, are TLA+ strings; Len, SubSeq and \o apply
\* to both.
Chars(s) == [i \in 1..Len(s) |-> SubSeq(s, i, i)]

\* s[i:] of Python, 1-based: the suffix of s starting at position i.
From(s, i) == SubSeq(s, i, Len(s))

\* s.startswith(p, i-1): p occurs in s at position i.
At(s, i, p) == /\ i >= 1
               /\ i + Len(p) - 1 <= Len(s)
               /\ SubSeq(s, i, i + Len(p) - 1) = p

\* `sub in s` of Python.
Contains(s, sub) == \E i \in 1..(Len(s) + 1) : At(s, i, sub)

\* s.find(sub) + 1: the first position at which sub occurs in s, 0 when none.
Find(s, sub) ==
    IF Contains(s, sub)
    THEN CHOOSE i \in 1..(Len(s) + 1) :
            /\ At(s, i, sub)
            /\ \A j \in 1..(i - 1) : ~At(s, j, sub)
    ELSE 0

\* s.split(':')[1]: the segment between the first and the second colon
\* (to the end of s when there is no second colon). Only used when ':' in s.
SplitColon1(s) ==
    LET rest == From(s, Find(s, <<":">>) + 1)
        j    == Find(rest, <<":">>)
    IN  IF j = 0 THEN rest ELSE SubSeq(rest, 1, j - 1)

\* str(n) for a natural number n, as "{}".format(n) renders it.
DigitStr == <<"0", "1", "2", "3", "4", "5", "6", "7", "8", "9">>

RECURSIVE ToStr(_)
ToStr(n) ==
    IF n < 10 THEN DigitStr[n + 1] ELSE ToStr(n \div 10) \o DigitStr[(n % 10) + 1]

\* The character with code point n > 127.
NonAscii(n) == "U+" \o ToStr(n)

\* The class [0-9].
AsciiDigits == {"0", "1", "2", "3", "4", "5", "6", "7", "8", "9"}

\* Code points of the digit zero of every other decimal digit system (each
\* system is ten consecutive code points; Unicode 14.0, the database of
\* Python 3.11): U+0660 ARABIC-INDIC, U+06F0, U+07C0 NKO, U+0966 DEVANAGARI,
\* ..., U+FF10 FULLWIDTH, ..., U+1FBF0.
DecimalZeros ==
    {1632, 1776, 1984, 2406, 2534, 2662, 2790, 2918, 3046, 3174, 3302, 3430,
     3558, 3664, 3792, 3872, 4160, 4240, 6112, 6160, 6470, 6608, 6784, 6800,
     6992, 7088, 7232, 7248, 42528, 43216, 43264, 43472, 43504, 43600, 44016,
     65296, 66720, 68912, 69734, 69872, 69942, 70096, 70384, 70736, 70864,
     71248, 71360, 71472, 71904, 72016, 72784, 73040, 73120, 92768, 92864,
     93008, 120782, 120792, 120802, 120812, 120822, 123200, 123632, 125264,
     130032}

\* `\d` of a str pattern compiled without re.ASCII: every Unicode decimal
\* digit.
Digits == AsciiDigits \cup { NonAscii(z + d) : z \in DecimalZeros, d \in 0..9 }

IsDigit(s, i) == i >= 1 /\ i <= Len(s) /\ s[i] \in Digits

\* A regex `$` matches at position k of s: at the end of the string, or
\* before a newline that ends the string.
AtEnd(s, k) == k = Len(s) + 1 \/ (k = Len(s) /\ At(s, k, <<"\n">>))

\* bool(re.search(suffix + "$", s)) for a literal suffix: s ends with the
\* suffix, or with the suffix and one newline.
EndsWith(s, suffix) ==
    \/ At(s, Len(s) - Len(suffix) + 1, suffix)
    \/ (At(s, Len(s), <<"\n">>) /\ At(s, Len(s) - Len(suffix), suffix))

\* The marker of the naming conventions.
Recrypted == Chars("recrypted")

\* The suffixes the two copy functions append, and the marker of the
\* importer's retention count.
RecryptedSuffix == Chars("-recrypted")

CopySuffix == Chars("-copy")

RecryptedCopy == Chars("recrypted-copy")

\* bool(re.search(r"recrypted$", s))
EndsWithRecrypted(s) == EndsWith(s, Recrypted)

ArnRdsHead == Chars("arn:aws:rds:")

SnapshotTail == Chars(":snapshot:")

\* The tail `:\d{12}:snapshot:` of shared_snapshot_regex occurs in s at k.
AccountTailAt(s, k) ==
    /\ At(s, k, <<":">>)
    /\ \A d \in 1..12 : IsDigit(s, k + d)
    /\ At(s, k + 13, SnapshotTail)

\* shared_snapshot_regex = r"arn:aws:rds:(.+):\d{12}:snapshot:" matches in s
\* starting at position i: the literal head, at least one character for (.+)
\* (no newline), then the tail starting at some k.
SharedMatchEnds(s, i) ==
    IF At(s, i, ArnRdsHead)
    THEN { k + 23 : k \in { k \in (i + 13)..Len(s) :
                              /\ AccountTailAt(s, k)
                              /\ ~Contains(SubSeq(s, i + 12, k - 1), <<"\n">>) } }
    ELSE {}

\* bool(re.search(shared_snapshot_regex, s))
SearchShared(s) == \E i \in 1..Len(s) : SharedMatchEnds(s, i) # {}

Max(S) == CHOOSE x \in S : \A y \in S : y <= x

\* re.sub(shared_snapshot_regex, "", s): the leftmost match is removed, (.+)
\* being greedy the match runs to the last possible tail, and the scan goes on
\* after the match.
RECURSIVE SubShared(_)
SubShared(s) ==
    IF ~SearchShared(s) THEN s
    ELSE LET i == CHOOSE i \in 1..Len(s) :
                     /\ SharedMatchEnds(s, i) # {}
                     /\ \A j \in 1..(i - 1) : SharedMatchEnds(s, j) = {}
             e == Max(SharedMatchEnds(s, i))
         IN  SubSeq(s, 1, i - 1) \o SubShared(From(s, e))

\* bool(re.match(r"^\d{12}$", s)) on TARGET_ACCOUNT
IsAccountId(s) ==
    /\ \A d \in 1..12 : IsDigit(s, d)
    /\ AtEnd(s, 13)

\* The character class [a-f0-9-] of the key id.
KeyIdChars == AsciiDigits \cup {"a", "b", "c", "d", "e", "f", "-"}

ArnKmsHead == Chars("arn:aws:kms:")

KeyTail == Chars(":key/")

\* The tail `:\d{12}:key/[a-f0-9-]+$` of the KMS regex occurs in s at k.
KeyTailAt(s, k) ==
    /\ At(s, k, <<":">>)
    /\ \A d \in 1..12 : IsDigit(s, k + d)
    /\ At(s, k + 13, KeyTail)
    /\ \E e \in (k + 19)..(Len(s) + 1) :
          /\ AtEnd(s, e)
          /\ \A j \in (k + 18)..(e - 1) : s[j] \in KeyIdChars

\* bool(re.match(r"^arn:aws:kms:(.+):\d{12}:(?:key\/[a-f0-9-]+)$", s)) on
\* KMS_KEY_ARN: the literal head, at least one character for (.+) (no
\* newline), then the tail.
IsKmsKeyArn(s) ==
    /\ At(s, 1, ArnKmsHead)
    /\ \E k \in 14..Len(s) :
          /\ KeyTailAt(s, k)
          /\ ~Contains(SubSeq(s, 13, k - 1), <<"\n">>)


(***************************************************************************)
(* Bounds of the model                                                     *)
(***************************************************************************)

\* Creation timestamps of the snapshots that exist before the run are drawn
\* from 1..MaxTime; 0 stands for a record without a SnapshotCreateTime key.
MaxTime == 2

\* EXPECTED_SNAPSHOT_COUNT is drawn from 0..MaxExpected.
MaxExpected == 2

\* The finders are applied to lists of at most MaxList snapshots.
MaxList == 3

\* The copy step is invoked at most MaxInvocations times for one source.
MaxInvocations == 2

(***************************************************************************)
(* State                                                                   *)
(***************************************************************************)
VARIABLES
    role,                    \* "exporter" | "importer": which script runs
    aws_region,              \* AWS_DEFAULT_REGION: <<>> when unset, else <<value>>
    kms_key_arn,             \* os.getenv('KMS_KEY_ARN', '')
    target_aws_account,      \* os.getenv('TARGET_ACCOUNT', '0'), read by the exporter
    debug,                   \* args.debug
    topic_arn,               \* os.environ.get("TOPIC_ARN", "")
    EXPECTED_SNAPSHOT_COUNT, \* int(os.getenv('EXPECTED_SNAPSHOT_COUNT', 4))
    catalog,                 \* the account's snapshots, in listing order
    deleted,                 \* the snapshots delete_db_snapshot removed, in order
    clock,                   \* the service's time, stamped on new snapshots
    filtered_instances,      \* exporter: filter_instances(...) identifiers
    snapshots_with_shared,   \* importer: response['DBSnapshots']
    snapshots_owned,         \* importer: dict, as (key, count) pairs in insertion order
    pc,                      \* position of the process in main()
    idx,                     \* position of the running for loop, 1-based
    ready_snapshot_count,
    snapshot,                \* local `snapshot`: <<>> or <<record>>
    copy,                    \* local recrypted_copy / local_copy: <<>> or <<record>>
    percent_progress,        \* local of wait_for_snapshot_to_be_ready
    sns_message,             \* local sns_message, "" while not constructed
    calls,                   \* log of the mutating API calls made by the run
    exit_status,             \* process exit status, meaningful when pc = "exit"
    exit_reason,             \* which statement ended the process
    fault                    \* the unhandled exception that ended it, "" if none

vars == <<role, aws_region, kms_key_arn, target_aws_account, debug, topic_arn, EXPECTED_SNAPSHOT_COUNT, catalog, deleted, clock,
          filtered_instances, snapshots_with_shared, snapshots_owned, pc, idx,
          ready_snapshot_count, snapshot, copy, percent_progress, sns_message,
          calls, exit_status, exit_reason, fault>>

\* What no step of the run assigns.
config == <<role, aws_region, kms_key_arn, target_aws_account, debug, topic_arn,
            EXPECTED_SNAPSHOT_COUNT, filtered_instances>>

(***************************************************************************)
(* The snapshot catalog (the RDS API as the scripts use it)                *)
(***************************************************************************)

Snap(id, inst, type, status, time) ==
    [DBSnapshotIdentifier |-> id, DBInstanceIdentifier |-> inst,
     SnapshotType |-> type, Status |-> status, SnapshotCreateTime |-> time,
     PercentProgress |-> IF status = "available" THEN 100 ELSE 0]

\* ARN prefix under which the destination account sees a shared snapshot.
SharedArnPrefix == Chars("arn:aws:rds:r:123456789012:snapshot:")

\* snapshot['DBSnapshotArn']: a shared snapshot is listed under its ARN.
DBSnapshotArn(s) ==
    IF s.SnapshotType = "shared" THEN s.DBSnapshotIdentifier
    ELSE SharedArnPrefix \o s.DBSnapshotIdentifier

DescribeByInstance_Mutant(cat, db_id, type) ==
    SelectSeq(cat, LAMBDA s : s.SnapshotType = type)

\* describe_db_snapshots(DBInstanceIdentifier=db_id, SnapshotType=type)['DBSnapshots']
DescribeByInstance(cat, db_id, type) ==
    SelectSeq(cat, LAMBDA s : s.DBInstanceIdentifier = db_id /\ s.SnapshotType = type)

\* describe_db_snapshots(DBSnapshotIdentifier=id)['DBSnapshots']
DescribeById(cat, id) ==
    SelectSeq(cat, LAMBDA s : s.DBSnapshotIdentifier = id)

\* describe_db_snapshots(IncludeShared=True)['DBSnapshots']
DescribeIncludeShared(cat) == cat

\* copy_db_snapshot raises DBSnapshotAlreadyExistsFault.
AlreadyExists(cat, target) == Len(DescribeById(cat, target)) > 0

\* The record copy_db_snapshot creates: a manual snapshot of the source's
\* instance, being created, stamped with the service's time.
NewCopy(source, target, now) ==
    Snap(target, source.DBInstanceIdentifier, "manual", "creating", now)

\* delete_db_snapshot(DBSnapshotIdentifier=id)
DeleteSnapshot(cat, id) ==
    SelectSeq(cat, LAMBDA s : s.DBSnapshotIdentifier # id)

\* One mutating API call: the operation, the object it targets, its argument
\* and a note (the fault it raised, or the subject of a publication).
Call(op, id, arg, note) == [op |-> op, id |-> id, arg |-> arg, note |-> note]


(***************************************************************************)
(* Pure functions of the two scripts                                       *)
(***************************************************************************)

\* The scan of get_latest_automatic_rds_snapshots: `latest` is <<>> for the
\* Python [] and <<record>> for a record.
RECURSIVE LatestScan(_, _)
LatestScan(snaps, latest) ==
    IF snaps = <<>> THEN latest
    ELSE LET s  == Head(snaps)
             l1 == IF Len(latest) = 0 THEN <<s>> ELSE latest
         IN  IF s.SnapshotCreateTime = 0 \/ l1[1].SnapshotCreateTime = 0
             THEN LatestScan(Tail(snaps), l1)
             ELSE IF s.SnapshotCreateTime > l1[1].SnapshotCreateTime
                  THEN LatestScan(Tail(snaps), <<s>>)
                  ELSE LatestScan(Tail(snaps), l1)

get_latest_automatic_rds_snapshots(cat, db_id) ==
    LatestScan(DescribeByInstance(cat, db_id, "automated"), <<>>)

RECURSIVE OldestScan_Mutant(_, _)
OldestScan_Mutant(snaps, oldest) ==
    IF snaps = <<>> THEN oldest
    ELSE LET s == Head(snaps)
         IN  IF ~Contains(s.DBSnapshotIdentifier, Recrypted)
             THEN OldestScan_Mutant(Tail(snaps), oldest)
             ELSE LET o1 == IF Len(oldest) = 0 THEN <<s>> ELSE oldest
                  IN  IF s.SnapshotCreateTime <= o1[1].SnapshotCreateTime
                      THEN OldestScan_Mutant(Tail(snaps), <<s>>)
                      ELSE OldestScan_Mutant(Tail(snaps), o1)

\* The scan of get_oldest_manual_recrypted_rds_snapshots: `oldest` is <<>>
\* for the Python 0 and <<record>> for a record.
RECURSIVE OldestScan(_, _)
OldestScan(snaps, oldest) ==
    IF snaps = <<>> THEN oldest
    ELSE LET s == Head(snaps)
         IN  IF ~Contains(s.DBSnapshotIdentifier, Recrypted)
             THEN OldestScan(Tail(snaps), oldest)
             ELSE LET o1 == IF Len(oldest) = 0 THEN <<s>> ELSE oldest
                  IN  IF s.SnapshotCreateTime < o1[1].SnapshotCreateTime
                      THEN OldestScan(Tail(snaps), <<s>>)
                      ELSE OldestScan(Tail(snaps), o1)

get_oldest_manual_recrypted_rds_snapshots_Mutant(cat, db_id) ==
    OldestScan(DescribeByInstance(cat, db_id, "automated"), <<>>)

\* Identical in both scripts. With no match the result is <<>>: the Python
\* function then raises TypeError at its print (oldest is 0).
get_oldest_manual_recrypted_rds_snapshots(cat, db_id) ==
    OldestScan(DescribeByInstance(cat, db_id, "manual"), <<>>)

\* Exporter's retention count: manual snapshots whose id contains "recrypted".
get_manual_recrypted_rds_snapshots_count(cat, db_id) ==
    Len(SelectSeq(DescribeByInstance(cat, db_id, "manual"),
                  LAMBDA s : Contains(s.DBSnapshotIdentifier, Recrypted)))

\* Importer's retention count: manual snapshots whose id contains "recrypted-copy".
get_owned_rds_snapshots_count(cat, db_id) ==
    Len(SelectSeq(DescribeByInstance(cat, db_id, "manual"),
                  LAMBDA s : Contains(s.DBSnapshotIdentifier, RecryptedCopy)))

\* The retention window of both pruning loops (`> 2`).
KeepCount == 2

NeedsPruning_Mutant(count) == count > KeepCount + 1

\* The test of both pruning `while` loops on the retention count.
NeedsPruning(count) == count > KeepCount

RecryptTargetId_Mutant(id) ==
    Chars("recrypted-") \o (IF Contains(id, <<":">>) THEN SplitColon1(id) ELSE id)

\* target_db_snapshot_id of recrypt_snapshot_with_new_key
RecryptTargetId(id) ==
    IF Contains(id, <<":">>) THEN SplitColon1(id) \o RecryptedSuffix
    ELSE id \o RecryptedSuffix

LocalCopyTargetId_Mutant(id) == id \o CopySuffix

\* target_db_snapshot_id of copy_shared_snapshot_to_local
LocalCopyTargetId(id) == SubShared(id) \o CopySuffix

PassesSharedFilter_Mutant(id) == EndsWithRecrypted(id)

\* The importer's filter of a listed snapshot (the negation of the `continue` test).
PassesSharedFilter(id) == EndsWithRecrypted(id) /\ SearchShared(id)

\* str.format with positional fields. A template is a sequence of parts, each
\* a literal text followed by the replacement field {index} (index -1: none).
Part(text, index) == [text |-> text, index |-> index]

\* "...".format(*args) raises IndexError: a field index beyond the arguments.
FormatRaises(template, args) ==
    \E k \in 1..Len(template) : template[k].index >= Len(args)

RECURSIVE Format(_, _)
Format(template, args) ==
    IF template = <<>> THEN ""
    ELSE LET p == Head(template)
         IN  p.text \o (IF p.index < 0 THEN "" ELSE ToStr(args[p.index + 1]))
                    \o Format(Tail(template), args)

ErrorTag == "COPY_RDS_SNAPSHOT_COUNT_ERROR"

ExporterTemplate ==
    << Part(ErrorTag \o " sharing RDS snapshots completed with error: "
                     \o "Expected snapshot count=", 0),
       Part(" not equal to actual snapshot count=", 1),
       Part(", exiting", -1) >>

ImporterTemplate ==
    << Part(ErrorTag \o " Shared RDS snapshot copying completed with error:\n"
                     \o "Expected snapshot count=", 1),
       Part(" not equal to actual snapshot count=", 2),
       Part(", exiting", -1) >>

ExporterSubject == "DR: source account take shared RDS snapshot error"
ImporterSubject == "DR: dst account copy RDS shared snapshot error"

\* `if ready_snapshot_count != EXPECTED_SNAPSHOT_COUNT` of both main()s
CountMismatch(ready, expected) == ready # expected

ShouldPublish_Mutant(dbg, topic) == topic # ""

\* `if not debug and topic_arn` of both main()s
ShouldPublish(dbg, topic) == ~dbg /\ topic # ""

\* snapshots_owned[key] = snapshots_owned.get(key, 0) + 1
RECURSIVE DictIncrement(_, _)
DictIncrement(d, key) ==
    IF d = <<>> THEN << <<key, 1>> >>
    ELSE IF Head(d)[1] = key THEN << <<key, Head(d)[2] + 1>> >> \o Tail(d)
         ELSE <<Head(d)>> \o DictIncrement(Tail(d), key)


(***************************************************************************)
(* The process                                                             *)
(***************************************************************************)

\* sys.exit(status), or the interpreter ending on an unhandled exception.
Exit(status, reason, exception) ==
    /\ pc' = "exit"
    /\ exit_status' = status
    /\ exit_reason' = reason
    /\ fault' = exception

\* Exit status of an unhandled Python exception.
UnhandledStatus == 1

\* __main__ of both scripts: `if not topic_arn and not debug: sys.exit(...)`
MissingTopic(dbg, topic) == topic = "" /\ ~dbg

\* The configuration checks that end the process before main() lists
\* anything: the region at module level, the topic in __main__, then in
\* main() TARGET_ACCOUNT (exporter only) and KMS_KEY_ARN. Each exits with
\* status 1.
ConfigInvalid(r, region, kms, target, dbg, topic) ==
    \/ region = <<>>
    \/ MissingTopic(dbg, topic)
    \/ (r = "exporter" /\ ~IsAccountId(target))
    \/ ~IsKmsKeyArn(kms)

ConfigError ==
    /\ pc = "start"
    /\ ConfigInvalid(role, aws_region, kms_key_arn, target_aws_account, debug, topic_arn)
    /\ Exit(1, "config", "")
    /\ UNCHANGED <<config, percent_progress, deleted, catalog, clock, snapshots_with_shared, snapshots_owned,
                   idx, ready_snapshot_count, snapshot, copy, sns_message, calls>>

CopyOrRetrieve_Mutant(source, sourceRef, target) ==
    IF AlreadyExists(catalog, target)
    THEN /\ copy' = <<source>>
         /\ calls' = Append(calls, Call("copy", target, sourceRef,
                                        "DBSnapshotAlreadyExistsFault"))
         /\ UNCHANGED <<catalog, clock>>
    ELSE /\ copy' = <<NewCopy(source, target, clock)>>
         /\ catalog' = Append(catalog, NewCopy(source, target, clock))
         /\ clock' = clock + 1
         /\ calls' = Append(calls, Call("copy", target, sourceRef, ""))

\* The try/except around copy_db_snapshot, shared by
\* recrypt_snapshot_with_new_key and copy_shared_snapshot_to_local.
CopyOrRetrieve(source, sourceRef, target) ==
    IF AlreadyExists(catalog, target)
    THEN /\ copy' = <<DescribeById(catalog, target)[1]>>
         /\ calls' = Append(calls, Call("copy", target, sourceRef,
                                        "DBSnapshotAlreadyExistsFault"))
         /\ UNCHANGED <<catalog, clock>>
    ELSE /\ copy' = <<NewCopy(source, target, clock)>>
         /\ catalog' = Append(catalog, NewCopy(source, target, clock))
         /\ clock' = clock + 1
         /\ calls' = Append(calls, Call("copy", target, sourceRef, ""))

WaitBreaks_Never(cat, snap) ==
    DescribeById(cat, snap.DBSnapshotIdentifier)[1].Status = "ready"

WaitBreaks_Mutant(cat, snap) ==
    DescribeById(cat, snap.DBSnapshotIdentifier)[1].Status # "creating"

\* One pass of the `while True` of wait_for_snapshot_to_be_ready:
\* TRUE when the loop breaks.
WaitBreaks(cat, snap) ==
    DescribeById(cat, snap.DBSnapshotIdentifier)[1].Status = "available"

\* The else branch of that pass: percent_progress follows the PercentProgress
\* it read, then time.sleep(10). The local is -1 outside the function.
WaitPass(broke) ==
    percent_progress' =
        IF broke THEN -1
        ELSE DescribeById(catalog, copy[1].DBSnapshotIdentifier)[1].PercentProgress

\* The body of the pruning `while`, for instance db_id, retention count n:
\* the finder, then delete_db_snapshot. A finder that matched nothing raises
\* TypeError (oldest is 0 at its print).
PruneOldest(db_id) ==
    LET oldest == get_oldest_manual_recrypted_rds_snapshots(catalog, db_id)
    IN  IF Len(oldest) = 0
        THEN /\ Exit(UnhandledStatus, "unhandled", "TypeError")
             /\ UNCHANGED <<catalog, deleted, calls, snapshot>>
        ELSE /\ snapshot' = oldest
             /\ catalog' = DeleteSnapshot(catalog, oldest[1].DBSnapshotIdentifier)
             /\ deleted' = deleted \o DescribeById(catalog, oldest[1].DBSnapshotIdentifier)
             /\ calls' = Append(calls, Call("delete", oldest[1].DBSnapshotIdentifier,
                                            db_id, ""))
             /\ UNCHANGED <<pc, exit_status, exit_reason, fault>>

ValidationStatus_Mutant(ready, expected) ==
    IF ready < expected THEN 1 ELSE 0

\* Exit status of the final validation.
ValidationStatus(ready, expected) ==
    IF CountMismatch(ready, expected) THEN 1 ELSE 0

\* The final validation of both main()s, with the script's message template
\* and subject.
Validate(template, subject) ==
    IF CountMismatch(ready_snapshot_count, EXPECTED_SNAPSHOT_COUNT)
    THEN IF FormatRaises(template, <<EXPECTED_SNAPSHOT_COUNT, ready_snapshot_count>>)
         THEN /\ Exit(UnhandledStatus, "count_mismatch", "IndexError")
              /\ UNCHANGED <<sns_message, calls>>
         ELSE LET msg == Format(template,
                                <<EXPECTED_SNAPSHOT_COUNT, ready_snapshot_count>>)
              IN  /\ sns_message' = msg
                  /\ calls' = IF ShouldPublish(debug, topic_arn)
                              THEN Append(calls, Call("publish", topic_arn, msg, subject))
                              ELSE calls
                  /\ Exit(ValidationStatus(ready_snapshot_count,
                                           EXPECTED_SNAPSHOT_COUNT),
                          "count_mismatch", "")
    ELSE /\ Exit(ValidationStatus(ready_snapshot_count, EXPECTED_SNAPSHOT_COUNT),
                 "success", "")
         /\ UNCHANGED <<sns_message, calls>>

----
\* Exporter: src/src_acc_take_share_rds_snapshot.py

\* The account the exporter shares with (a well-formed TARGET_ACCOUNT).
TargetAccount == Chars("210987654321")

\* A well-formed KMS_KEY_ARN.
KmsKeyArn == Chars("arn:aws:kms:r:123456789012:key/0a1b-2c3d")

ExporterStart ==
    /\ pc = "start"
    /\ role = "exporter"
    /\ ~ConfigInvalid(role, aws_region, kms_key_arn, target_aws_account, debug, topic_arn)
    /\ pc' = "e_loop"
    /\ idx' = 1
    /\ ready_snapshot_count' = 0
    /\ UNCHANGED <<config, percent_progress, deleted, catalog, clock, snapshots_with_shared, snapshots_owned,
                   snapshot, copy, sns_message, calls, exit_status, exit_reason, fault>>

\* for db_instance in filtered_instances: the latest automated snapshot, and
\* `continue` when there is none.
ExporterLatest ==
    /\ pc = "e_loop"
    /\ idx <= Len(filtered_instances)
    /\ LET found == get_latest_automatic_rds_snapshots(catalog, filtered_instances[idx])
       IN  /\ snapshot' = found
           /\ IF Len(found) = 0
              THEN idx' = idx + 1 /\ pc' = pc
              ELSE idx' = idx /\ pc' = "e_recrypt"
    /\ UNCHANGED <<config, percent_progress, deleted, catalog, clock, snapshots_with_shared, snapshots_owned,
                   ready_snapshot_count, copy, sns_message, calls,
                   exit_status, exit_reason, fault>>

ExporterRecrypt ==
    /\ pc = "e_recrypt"
    /\ CopyOrRetrieve(snapshot[1], snapshot[1].DBSnapshotIdentifier,
                      RecryptTargetId(snapshot[1].DBSnapshotIdentifier))
    /\ pc' = "e_wait"
    /\ UNCHANGED <<config, deleted, percent_progress, snapshots_with_shared, snapshots_owned, idx,
                   ready_snapshot_count, snapshot, sns_message,
                   exit_status, exit_reason, fault>>

ExporterWait ==
    /\ pc = "e_wait"
    /\ pc' = IF WaitBreaks(catalog, copy[1]) THEN "e_share" ELSE pc
    /\ WaitPass(WaitBreaks(catalog, copy[1]))
    /\ UNCHANGED <<config, deleted, catalog, clock, snapshots_with_shared, snapshots_owned,
                   idx, ready_snapshot_count, snapshot, copy, sns_message, calls,
                   exit_status, exit_reason, fault>>

\* share_snapshot_with_external_account, then ready_snapshot_count += 1
ExporterShare ==
    /\ pc = "e_share"
    /\ calls' = Append(calls, Call("share", copy[1].DBSnapshotIdentifier,
                                   target_aws_account, ""))
    /\ ready_snapshot_count' = ready_snapshot_count + 1
    /\ pc' = "e_prune"
    /\ UNCHANGED <<config, percent_progress, deleted, catalog, clock, snapshots_with_shared, snapshots_owned,
                   idx, snapshot, copy, sns_message, exit_status, exit_reason, fault>>

\* One test of the pruning `while` and, when it holds, one pass of its body.
ExporterPrune ==
    /\ pc = "e_prune"
    /\ IF NeedsPruning(get_manual_recrypted_rds_snapshots_count(
                           catalog, filtered_instances[idx]))
       THEN PruneOldest(filtered_instances[idx]) /\ idx' = idx
       ELSE /\ idx' = idx + 1
            /\ pc' = "e_loop"
            /\ UNCHANGED <<catalog, deleted, calls, snapshot, exit_status, exit_reason, fault>>
    /\ UNCHANGED <<config, percent_progress, clock, snapshots_with_shared, snapshots_owned,
                   ready_snapshot_count, copy, sns_message>>

ExporterValidate ==
    /\ pc = "e_loop"
    /\ idx > Len(filtered_instances)
    /\ Validate(ExporterTemplate, ExporterSubject)
    /\ UNCHANGED <<config, percent_progress, deleted, catalog, clock, snapshots_with_shared, snapshots_owned,
                   idx, ready_snapshot_count, snapshot, copy>>

----
\* Importer: src/dst_acc_copy_shared_rds_snapshot_to_local.py

ImporterStart ==
    /\ pc = "start"
    /\ role = "importer"
    /\ ~ConfigInvalid(role, aws_region, kms_key_arn, target_aws_account, debug, topic_arn)
    /\ LET response == DescribeIncludeShared(catalog)
       IN  IF Len(response) = 0
           THEN /\ Exit(1, "no_snapshots", "")
                /\ UNCHANGED <<snapshots_with_shared, idx>>
           ELSE /\ snapshots_with_shared' = response
                /\ idx' = 1
                /\ pc' = "i_loop"
                /\ UNCHANGED <<exit_status, exit_reason, fault>>
    /\ snapshots_owned' = <<>>
    /\ ready_snapshot_count' = 0
    /\ UNCHANGED <<config, percent_progress, deleted, catalog, clock, snapshot, copy, sns_message, calls>>

\* for snapshot in snapshots_with_shared: the `continue` of the filter
ImporterSkip ==
    /\ pc = "i_loop"
    /\ idx <= Len(snapshots_with_shared)
    /\ ~PassesSharedFilter(snapshots_with_shared[idx].DBSnapshotIdentifier)
    /\ snapshot' = <<snapshots_with_shared[idx]>>
    /\ idx' = idx + 1
    /\ UNCHANGED <<config, percent_progress, deleted, catalog, clock, snapshots_with_shared, snapshots_owned, pc,
                   ready_snapshot_count, copy, sns_message, calls,
                   exit_status, exit_reason, fault>>

ImporterCopy ==
    /\ pc = "i_loop"
    /\ idx <= Len(snapshots_with_shared)
    /\ PassesSharedFilter(snapshots_with_shared[idx].DBSnapshotIdentifier)
    /\ snapshot' = <<snapshots_with_shared[idx]>>
    /\ CopyOrRetrieve(snapshots_with_shared[idx],
                      DBSnapshotArn(snapshots_with_shared[idx]),
                      LocalCopyTargetId(snapshots_with_shared[idx].DBSnapshotIdentifier))
    /\ pc' = "i_wait"
    /\ UNCHANGED <<config, deleted, percent_progress, snapshots_with_shared, snapshots_owned, idx,
                   ready_snapshot_count, sns_message, exit_status, exit_reason, fault>>

\* wait_for_snapshot_to_be_ready, then the two counters
ImporterWait ==
    /\ pc = "i_wait"
    /\ IF WaitBreaks(catalog, copy[1])
       THEN /\ ready_snapshot_count' = ready_snapshot_count + 1
            /\ snapshots_owned' = DictIncrement(snapshots_owned,
                                                snapshot[1].DBInstanceIdentifier)
            /\ idx' = idx + 1
            /\ pc' = "i_loop"
       ELSE UNCHANGED <<ready_snapshot_count, snapshots_owned, idx, pc>>
    /\ WaitPass(WaitBreaks(catalog, copy[1]))
    /\ UNCHANGED <<config, deleted, catalog, clock, snapshots_with_shared, snapshot, copy,
                   sns_message, calls, exit_status, exit_reason, fault>>

\* The copy loop is exhausted: `for db_instance in snapshots_owned.keys()` starts.
ImporterPruneStart ==
    /\ pc = "i_loop"
    /\ idx > Len(snapshots_with_shared)
    /\ pc' = "i_prune"
    /\ idx' = 1
    /\ UNCHANGED <<config, percent_progress, deleted, catalog, clock, snapshots_with_shared, snapshots_owned,
                   ready_snapshot_count, snapshot, copy, sns_message, calls,
                   exit_status, exit_reason, fault>>

ImporterPrune ==
    /\ pc = "i_prune"
    /\ idx <= Len(snapshots_owned)
    /\ IF NeedsPruning(get_owned_rds_snapshots_count(catalog, snapshots_owned[idx][1]))
       THEN PruneOldest(snapshots_owned[idx][1]) /\ idx' = idx
       ELSE /\ idx' = idx + 1
            /\ UNCHANGED <<catalog, deleted, calls, snapshot, pc, exit_status, exit_reason, fault>>
    /\ UNCHANGED <<config, percent_progress, clock, snapshots_with_shared, snapshots_owned,
                   ready_snapshot_count, copy, sns_message>>

ImporterValidate ==
    /\ pc = "i_prune"
    /\ idx > Len(snapshots_owned)
    /\ Validate(ImporterTemplate, ImporterSubject)
    /\ UNCHANGED <<config, percent_progress, deleted, catalog, clock, snapshots_with_shared, snapshots_owned,
                   idx, ready_snapshot_count, snapshot, copy>>

----
\* The service: a snapshot being created becomes available, or fails.

SetStatus(i, status) ==
    /\ catalog[i].Status = "creating"
    /\ catalog' = [catalog EXCEPT ![i].Status = status,
                                  ![i].PercentProgress =
                                      IF status = "available" THEN 100 ELSE @]
    /\ UNCHANGED <<config, percent_progress, deleted, clock, snapshots_with_shared, snapshots_owned, pc, idx,
                   ready_snapshot_count, snapshot, copy, sns_message, calls,
                   exit_status, exit_reason, fault>>

SnapshotCompletes == \E i \in 1..Len(catalog) : SetStatus(i, "available")

SnapshotFails == \E i \in 1..Len(catalog) : SetStatus(i, "failed")

----
(***************************************************************************)
(* Initial states: the configuration and the catalog the run finds         *)
(***************************************************************************)

\* The snapshots of `pool` that f marks present (f[k] > 0), in pool order,
\* available, created at time f[k].
RECURSIVE Pick(_, _)
Pick(pool, f) ==
    IF pool = <<>> THEN <<>>
    ELSE (IF f[1] = 0 THEN <<>>
          ELSE <<Snap(pool[1][1], pool[1][2], pool[1][3], "available", f[1])>>)
         \o Pick(Tail(pool), Tail(f))

\* Presence and creation time of each member of a pool of n snapshots.
Presence(n, times) == [1..n -> {0} \cup times]

\* Automated snapshots rds:<x>1, rds:<x>2, ... of instance x with the given
\* creation times (0: the record has no SnapshotCreateTime yet).
AutoList(x, times) ==
    [k \in 1..Len(times) |->
        Snap(Chars("rds:" \o x \o ToStr(k)), x, "automated",
             IF times[k] = 0 THEN "creating" ELSE "available", times[k])]

\* All lists of at most n elements drawn from `times`.
TimeLists(n, times) == UNION { [1..k -> times] : k \in 0..n }

\* Source account, manual snapshots of instance x: recrypted copies (the
\* first is the copy of rds:<x>1 made by an earlier run), one that carries
\* the marker inside its name, and one without the marker.
ExporterManualPool(x) ==
    << <<Chars(x \o "1-recrypted"), x, "manual">>,
       <<Chars(x \o "0-recrypted"), x, "manual">>,
       <<Chars(x \o "7-recrypted-old"), x, "manual">>,
       <<Chars(x \o "9-manual"), x, "manual">>,
       <<Chars(x \o "8-recrypted"), x, "manual">> >>

\* Instance a has one automated snapshot, any of its first three manual
\* snapshots at any times, and its unmarked one; instance b has an automated
\* snapshot or none, and no manual snapshot or its four marked ones.
ExporterCatalogs ==
    { AutoList("a", <<1>>) \o Pick(ExporterManualPool("a"), fa \o <<1, 0>>)
        \o AutoList("b", tb) \o Pick(ExporterManualPool("b"), fb) :
        fa \in Presence(3, 1..MaxTime),
        tb \in {<<>>, <<1>>}, fb \in {<<0, 0, 0, 0, 0>>, <<1, 1, 1, 0, 1>>} }

ExporterInstanceLists == {<<>>, <<"a">>, <<"a", "b">>, <<"b", "a">>}

\* Destination account, instance x: three snapshots shared with the account
\* (two that follow the naming convention, one that does not), and the
\* account's own manual snapshots: local copies (the first is the copy of the
\* shared <x>1-recrypted), one marked "recrypted" that is no copy, one
\* unmarked.
ImporterSharedPool(x) ==
    << <<SharedArnPrefix \o Chars(x \o "1-recrypted"), x, "shared">>,
       <<SharedArnPrefix \o Chars(x \o "2-recrypted"), x, "shared">>,
       <<SharedArnPrefix \o Chars(x \o "3-plain"), x, "shared">> >>

ImporterOwnPool(x) ==
    << <<Chars(x \o "1-recrypted-copy"), x, "manual">>,
       <<Chars(x \o "0-recrypted-copy"), x, "manual">>,
       <<Chars(x \o "7-recrypted"), x, "manual">>,
       <<Chars(x \o "9-manual"), x, "manual">>,
       <<Chars(x \o "8-recrypted-copy"), x, "manual">> >>

\* The empty catalog, and: any of a's first three own snapshots at any times,
\* a's unmarked one, any of a's shared ones; for b no own snapshot or its four
\* marked ones, and a shared one or none.
ImporterCatalogs ==
    { <<>> } \cup
    { Pick(ImporterOwnPool("a"), fa \o <<1, 0>>) \o Pick(ImporterSharedPool("a"), sa)
        \o Pick(ImporterOwnPool("b"), fb) \o Pick(ImporterSharedPool("b"), sb) :
        fa \in Presence(3, 1..MaxTime), sa \in Presence(3, {1}),
        fb \in {<<0, 0, 0, 0, 0>>, <<1, 1, 1, 0, 1>>},
        sb \in {<<0, 0, 0>>, <<1, 0, 0>>} }

Topic == "arn:aws:sns:r:123456789012:dr-alerts"

\* Spec, SpecFinders and SpecTwice run with a well-formed region, key and
\* target account; SpecConfig draws them.
ValidEnvironment ==
    /\ aws_region = <<"r">>
    /\ kms_key_arn = KmsKeyArn
    /\ target_aws_account = TargetAccount

Init ==
    /\ role \in {"exporter", "importer"}
    /\ ValidEnvironment
    /\ debug \in BOOLEAN
    /\ topic_arn \in {"", Topic}
    /\ EXPECTED_SNAPSHOT_COUNT \in 0..MaxExpected
    /\ IF role = "exporter"
       THEN catalog \in ExporterCatalogs /\ filtered_instances \in ExporterInstanceLists
       ELSE catalog \in ImporterCatalogs /\ filtered_instances = <<>>
    /\ deleted = <<>>
    /\ clock = MaxTime + 1
    /\ snapshots_with_shared = <<>>
    /\ snapshots_owned = <<>>
    /\ pc = "start"
    /\ idx = 1
    /\ ready_snapshot_count = 0
    /\ snapshot = <<>>
    /\ copy = <<>>
    /\ percent_progress = -1
    /\ sns_message = ""
    /\ calls = <<>>
    /\ exit_status = 0
    /\ exit_reason = ""
    /\ fault = ""

RunNext ==
    \/ ExporterStart
    \/ ExporterLatest
    \/ ExporterRecrypt
    \/ ExporterWait
    \/ ExporterShare
    \/ ExporterPrune
    \/ ExporterValidate
    \/ ImporterStart
    \/ ImporterSkip
    \/ ImporterCopy
    \/ ImporterWait
    \/ ImporterPruneStart
    \/ ImporterPrune
    \/ ImporterValidate
    \/ SnapshotCompletes
    \/ SnapshotFails

Next == ConfigError \/ RunNext

\* One run of either script, from process start to exit.
Spec == Init /\ [][Next]_vars

----
(***************************************************************************)
(* The finders applied to bounded snapshot lists                           *)
(***************************************************************************)

\* Manual snapshots m1, m2, ... of instance x: the k-th is marked
\* "-recrypted" when entries[k][1], and created at time entries[k][2].
ManualList(x, entries) ==
    [k \in 1..Len(entries) |->
        Snap(Chars("m" \o ToStr(k) \o (IF entries[k][1] THEN "-recrypted" ELSE "-plain")),
             x, "manual", "available", entries[k][2])]

FinderCatalogs ==
    { AutoList("a", ta) : ta \in TimeLists(MaxList, 0..MaxTime) }
    \cup
    { ManualList("a", e) : e \in TimeLists(MaxList, BOOLEAN \X (1..MaxTime)) }

InitFinders ==
    /\ role \in {"exporter", "importer"}
    /\ ValidEnvironment
    /\ debug = TRUE
    /\ topic_arn = ""
    /\ EXPECTED_SNAPSHOT_COUNT = 0
    /\ catalog \in FinderCatalogs
    /\ filtered_instances = <<"a">>
    /\ deleted = <<>>
    /\ clock = MaxTime + 1
    /\ snapshots_with_shared = <<>>
    /\ snapshots_owned = <<>>
    /\ pc = "finders"
    /\ idx = 1
    /\ ready_snapshot_count = 0
    /\ snapshot = <<>>
    /\ copy = <<>>
    /\ percent_progress = -1
    /\ sns_message = ""
    /\ calls = <<>>
    /\ exit_status = 0
    /\ exit_reason = ""
    /\ fault = ""

\* snapshot = get_latest_automatic_rds_snapshots(client, 'a')
CallLatest ==
    /\ pc = "finders"
    /\ snapshot' = get_latest_automatic_rds_snapshots(catalog, "a")
    /\ pc' = "latest"
    /\ UNCHANGED <<config, catalog, deleted, clock, snapshots_with_shared,
                   snapshots_owned, idx, ready_snapshot_count, copy, percent_progress,
                   sns_message, calls, exit_status, exit_reason, fault>>

\* snapshot = get_oldest_manual_recrypted_rds_snapshots(client, 'a'), which
\* raises TypeError when nothing matched.
CallOldest ==
    /\ pc = "finders"
    /\ LET oldest == get_oldest_manual_recrypted_rds_snapshots(catalog, "a")
       IN  IF Len(oldest) = 0
           THEN Exit(UnhandledStatus, "unhandled", "TypeError") /\ UNCHANGED snapshot
           ELSE /\ snapshot' = oldest
                /\ pc' = "oldest"
                /\ UNCHANGED <<exit_status, exit_reason, fault>>
    /\ UNCHANGED <<config, catalog, deleted, clock, snapshots_with_shared,
                   snapshots_owned, idx, ready_snapshot_count, copy, percent_progress,
                   sns_message, calls>>

NextFinders == CallLatest \/ CallOldest

SpecFinders == InitFinders /\ [][NextFinders]_vars

----
(***************************************************************************)
(* A run in which the copy step is invoked again for the same source       *)
(***************************************************************************)

CopyCallsFor(sourceRef) ==
    SelectSeq(calls, LAMBDA c : c.op = "copy" /\ c.arg = sourceRef)

\* recrypt_snapshot_with_new_key / copy_shared_snapshot_to_local is called
\* once more with the snapshot it was just called with.
Reinvoke ==
    /\ pc \in {"e_wait", "i_wait"}
    /\ Len(CopyCallsFor(calls[Len(calls)].arg)) < MaxInvocations
    /\ calls[Len(calls)].op = "copy"
    /\ pc' = IF pc = "e_wait" THEN "e_recrypt" ELSE "i_loop"
    /\ UNCHANGED <<config, catalog, deleted, clock, snapshots_with_shared,
                   snapshots_owned, idx, ready_snapshot_count, snapshot, copy,
                   percent_progress, sns_message, calls, exit_status, exit_reason,
                   fault>>

InitTwice ==
    /\ Init
    /\ debug
    /\ topic_arn = ""
    /\ EXPECTED_SNAPSHOT_COUNT = 0

NextTwice == RunNext \/ Reinvoke

SpecTwice == InitTwice /\ [][NextTwice]_vars

----
(***************************************************************************)
(* Properties                                                              *)
(***************************************************************************)

\* The run went through the final validation step of main().
ReachedValidation ==
    pc = "exit" /\ exit_reason \in {"success", "count_mismatch"}

CallsOf(op) == SelectSeq(calls, LAMBDA c : c.op = op)

\* C1: a run that reaches the final validation exits with status 0 exactly
\* when ready_snapshot_count equals EXPECTED_SNAPSHOT_COUNT, and with a
\* non-zero status for every other count, in both scripts and in debug mode
\* as outside it.
C1_ExitStatusIffCountsEqual ==
    ReachedValidation =>
        /\ (exit_status = 0) <=> (ready_snapshot_count = EXPECTED_SNAPSHOT_COUNT)
        /\ (ready_snapshot_count # EXPECTED_SNAPSHOT_COUNT) => exit_status > 0

\* A debug-mode importer run that copied nothing, expected more, and failed.
C1_Witness ==
    /\ ReachedValidation
    /\ role = "importer"
    /\ debug
    /\ ready_snapshot_count = 0
    /\ EXPECTED_SNAPSHOT_COUNT > 0
    /\ exit_status = 1

\* C2: an exporter run that ends with a count mismatch, outside debug mode and
\* with a topic, has published exactly one notification, whose message holds
\* the error tag, the expected and the actual count; a run that ends with
\* equal counts or runs in debug mode has published none, and nothing is
\* published before the run ends.
C2_ExporterNotification ==
    role = "exporter" =>
        IF ReachedValidation /\ ready_snapshot_count # EXPECTED_SNAPSHOT_COUNT
           /\ ~debug /\ topic_arn # ""
        THEN /\ Len(CallsOf("publish")) = 1
             /\ CallsOf("publish")[1].id = topic_arn
             /\ Contains(CallsOf("publish")[1].arg, ErrorTag)
             /\ Contains(CallsOf("publish")[1].arg, ToStr(EXPECTED_SNAPSHOT_COUNT))
             /\ Contains(CallsOf("publish")[1].arg, ToStr(ready_snapshot_count))
        ELSE Len(CallsOf("publish")) = 0

\* An exporter run that shared one snapshot, expected two, and published.
C2_Witness ==
    /\ role = "exporter"
    /\ ReachedValidation
    /\ ready_snapshot_count = 1
    /\ EXPECTED_SNAPSHOT_COUNT = 2
    /\ ~debug
    /\ Len(CallsOf("publish")) = 1

\* C3: an importer run that ends with a count mismatch has constructed a
\* message holding the error tag, the expected and the actual count, and
\* outside debug mode with a topic has published it exactly once.
C3_ImporterNotification ==
    (role = "importer" /\ ReachedValidation
       /\ ready_snapshot_count # EXPECTED_SNAPSHOT_COUNT) =>
        /\ exit_status > 0
        /\ Contains(sns_message, ErrorTag)
        /\ Contains(sns_message, ToStr(EXPECTED_SNAPSHOT_COUNT))
        /\ Contains(sns_message, ToStr(ready_snapshot_count))
        /\ (~debug /\ topic_arn # "") =>
              /\ Len(CallsOf("publish")) = 1
              /\ CallsOf("publish")[1].arg = sns_message

\* The role's naming suffix of the RetentionSet.
RetentionSuffix == IF role = "exporter" THEN RecryptedSuffix ELSE RecryptedSuffix \o CopySuffix

\* The RetentionSet of instance db_id among the snapshots `snaps`.
RetentionSet(snaps, db_id) ==
    SelectSeq(snaps, LAMBDA s : /\ s.DBInstanceIdentifier = db_id
                                /\ s.SnapshotType = "manual"
                                /\ EndsWith(s.DBSnapshotIdentifier, RetentionSuffix))

Range(seq) == { seq[k] : k \in 1..Len(seq) }

\* The instances that have, or had, snapshots in the catalog.
CatalogInstances ==
    { s.DBInstanceIdentifier : s \in Range(catalog) \cup Range(deleted) }

\* C4: after a run that ends with exit status 0, every instance with snapshots
\* in the catalog has at most 2 snapshots in its RetentionSet, and no deleted
\* member of the set is newer than a kept one.
C4_RetentionAfterSuccess ==
    (pc = "exit" /\ exit_status = 0) =>
        \A db \in CatalogInstances :
            /\ Len(RetentionSet(catalog, db)) <= KeepCount
            /\ \A d \in Range(RetentionSet(deleted, db)) :
               \A k \in Range(RetentionSet(catalog, db)) :
                   d.SnapshotCreateTime <= k.SnapshotCreateTime

\* The instances for which the run requested a copy.
CopiedInstances ==
    { s.DBInstanceIdentifier :
        s \in { t \in Range(catalog) \cup Range(deleted) :
                  \E c \in Range(CallsOf("copy")) : c.id = t.DBSnapshotIdentifier } }

\* C4 (amended): after a run that ends with exit status 0, every instance for
\* which the run copied or retrieved a snapshot has at most 2 snapshots in its
\* RetentionSet, and no deleted member of the set is newer than a kept one.
C4_RetentionOfCopiedInstances ==
    (pc = "exit" /\ exit_status = 0) =>
        \A db \in CopiedInstances :
            /\ Len(RetentionSet(catalog, db)) <= KeepCount
            /\ \A d \in Range(RetentionSet(deleted, db)) :
               \A k \in Range(RetentionSet(catalog, db)) :
                   d.SnapshotCreateTime <= k.SnapshotCreateTime

\* A successful run that deleted a member of a RetentionSet and kept two newer ones.
C4_Witness ==
    /\ pc = "exit"
    /\ exit_status = 0
    /\ \E db \in CopiedInstances :
          /\ Len(RetentionSet(deleted, db)) = 1
          /\ Len(RetentionSet(catalog, db)) = KeepCount
          /\ \A k \in Range(RetentionSet(catalog, db)) :
                RetentionSet(deleted, db)[1].SnapshotCreateTime < k.SnapshotCreateTime

\* What the retention count of the role's pruning loop matches.
CountMatches(id) ==
    IF role = "exporter" THEN Contains(id, Recrypted)
    ELSE Contains(id, RecryptedCopy)

Matching(snaps, db_id) ==
    SelectSeq(snaps, LAMBDA s : /\ s.DBInstanceIdentifier = db_id
                                /\ s.SnapshotType = "manual"
                                /\ CountMatches(s.DBSnapshotIdentifier))

DeletedOf(db_id) == SelectSeq(deleted, LAMBDA s : s.DBInstanceIdentifier = db_id)

\* The pruning loop of instance db_id has run and ended.
PruningEnded(db_id) ==
    IF role = "exporter"
    THEN /\ pc \in {"e_loop", "e_recrypt", "e_wait", "e_share", "e_prune", "exit"}
         /\ exit_reason # "config"
         /\ \E k \in 1..Len(filtered_instances) :
               /\ filtered_instances[k] = db_id
               /\ k < idx
               /\ Len(DescribeByInstance(catalog, db_id, "automated")) > 0
    ELSE /\ \/ pc = "i_prune"
            \/ ReachedValidation
         /\ \E k \in 1..Len(snapshots_owned) :
               snapshots_owned[k][1] = db_id /\ k < idx

Min(a, b) == IF a < b THEN a ELSE b

\* With N matching snapshots when the loop started, min(N, 2) remain and the
\* deleted ones are the N-2 oldest of them.
PrunedToNewest(db_id) ==
    LET kept == Matching(catalog, db_id)
        gone == DeletedOf(db_id)
        N    == Len(kept) + Len(Matching(deleted, db_id))
    IN  /\ Len(kept) = Min(N, KeepCount)
        /\ Len(gone) = N - Min(N, KeepCount)
        /\ \A d \in Range(gone) :
              /\ CountMatches(d.DBSnapshotIdentifier)
              /\ \A k \in Range(kept) : d.SnapshotCreateTime <= k.SnapshotCreateTime

\* C5: for an instance with N >= 0 matching manual snapshots when pruning
\* starts, the pruning loop of either script ends with exactly min(N, 2)
\* matching snapshots and has deleted exactly the N-2 oldest of them.
C5_PruningConverges ==
    \A db \in CatalogInstances : PruningEnded(db) => PrunedToNewest(db)

----
\* Properties of the finders (SpecFinders)

AutomatedOfA == DescribeByInstance(catalog, "a", "automated")

ManualOfA == DescribeByInstance(catalog, "a", "manual")

\* The first position of `snaps` that holds the greatest creation time.
FirstLatest(snaps) ==
    CHOOSE k \in 1..Len(snaps) :
        /\ \A j \in 1..Len(snaps) : snaps[j].SnapshotCreateTime <= snaps[k].SnapshotCreateTime
        /\ \A j \in 1..(k - 1) : snaps[j].SnapshotCreateTime < snaps[k].SnapshotCreateTime

\* C6: get_latest_automatic_rds_snapshots returns the snapshot with the
\* maximum creation timestamp, the first one in scan order among equals, also
\* when some snapshots of the list have no timestamp; an empty list gives the
\* empty result.
C6_LatestIsMaximum ==
    pc = "latest" =>
        IF Len(AutomatedOfA) = 0 THEN snapshot = <<>>
        ELSE /\ Len(snapshot) = 1
             /\ snapshot[1] \in Range(AutomatedOfA)
             /\ (\E s \in Range(AutomatedOfA) : s.SnapshotCreateTime > 0)
                   => snapshot[1] = AutomatedOfA[FirstLatest(AutomatedOfA)]

Marked(snaps) ==
    SelectSeq(snaps, LAMBDA s : Contains(s.DBSnapshotIdentifier, Recrypted))

\* The first position of `snaps` that holds the least creation time.
FirstOldest(snaps) ==
    CHOOSE k \in 1..Len(snaps) :
        /\ \A j \in 1..Len(snaps) : snaps[k].SnapshotCreateTime <= snaps[j].SnapshotCreateTime
        /\ \A j \in 1..(k - 1) : snaps[k].SnapshotCreateTime < snaps[j].SnapshotCreateTime

\* C7: on a list of manual snapshots with at least one identifier holding
\* "recrypted", get_oldest_manual_recrypted_rds_snapshots returns the marked
\* snapshot with the minimum creation timestamp, the first one in scan order
\* among equals, and never an unmarked one.
C7_OldestIsMinimumOfMarked ==
    (pc \in {"oldest", "exit"} /\ Len(Marked(ManualOfA)) > 0) =>
        /\ pc = "oldest"
        /\ Len(snapshot) = 1
        /\ Contains(snapshot[1].DBSnapshotIdentifier, Recrypted)
        /\ snapshot[1] = Marked(ManualOfA)[FirstOldest(Marked(ManualOfA))]

\* The finder passed over an older unmarked snapshot and returned the first
\* of two marked snapshots of equal, minimal time.
C7_Witness ==
    /\ pc = "oldest"
    /\ \E s \in Range(ManualOfA) :
          /\ ~Contains(s.DBSnapshotIdentifier, Recrypted)
          /\ s.SnapshotCreateTime < snapshot[1].SnapshotCreateTime
    /\ \E s \in Range(Marked(ManualOfA)) :
          /\ s # snapshot[1]
          /\ s.SnapshotCreateTime = snapshot[1].SnapshotCreateTime

----
\* Properties of the repeated copy step (SpecTwice)

\* The step is a copy call for a source that a copy call was made for before.
RepeatedCopyCall ==
    /\ Len(calls') = Len(calls) + 1
    /\ calls'[Len(calls')].op = "copy"
    /\ Len(CopyCallsFor(calls'[Len(calls')].arg)) > 0

\* C8: a second invocation of recrypt_snapshot_with_new_key or
\* copy_shared_snapshot_to_local with the same source gets the 'already
\* exists' fault, returns the existing snapshot, whose identifier is the one
\* the first invocation returned, surfaces no error, and leaves exactly one
\* snapshot with the derived target identifier in the catalog.
C8_SecondCopyIsIdempotent ==
    [][RepeatedCopyCall =>
          /\ calls'[Len(calls')].note = "DBSnapshotAlreadyExistsFault"
          /\ copy'[1].DBSnapshotIdentifier = copy[1].DBSnapshotIdentifier
          /\ copy'[1].DBSnapshotIdentifier = calls'[Len(calls')].id
          /\ pc' \in {"e_wait", "i_wait"}
          /\ fault' = ""
          /\ Len(DescribeById(catalog', calls'[Len(calls')].id)) = 1]_vars

\* The first invocation created the copy and the second one found it.
C8_Witness ==
    /\ pc \in {"e_wait", "i_wait"}
    /\ Len(calls) = 2
    /\ calls[1].arg = calls[2].arg
    /\ calls[1].note = ""
    /\ calls[2].note = "DBSnapshotAlreadyExistsFault"
    /\ copy[1].DBSnapshotIdentifier = calls[1].id

----
\* Properties of the Readiness Waiter and of the importer's precondition (Spec)

\* The process is in wait_for_snapshot_to_be_ready and the snapshot it waits
\* for has failed.
AwaitedFailed ==
    /\ pc \in {"e_wait", "i_wait"}
    /\ DescribeById(catalog, copy[1].DBSnapshotIdentifier)[1].Status = "failed"

\* C9 (as claimed): once the awaited snapshot has failed, the next step of the
\* process ends it with an unhandled failure.
C9_FailedSnapshotAbortsRun ==
    [][AwaitedFailed => (pc' = "exit" /\ fault' # "")]_vars

\* C9 (amended): once the awaited snapshot has failed, the Readiness Waiter
\* keeps polling: the process stays in the wait, makes no further share,
\* delete or publish call, and never terminates.
C9_FailedSnapshotBlocksRun ==
    [][AwaitedFailed => (pc' = pc /\ calls' = calls /\ AwaitedFailed')]_vars

\* The waiter has polled the snapshot, which has failed, and is still waiting.
C9_Witness ==
    /\ AwaitedFailed
    /\ percent_progress = 0
    /\ Len(CallsOf("copy")) > 0

\* Nothing in the catalog is shared with the account.
NoSharedSnapshot == \A s \in Range(catalog) : s.SnapshotType # "shared"

\* C10: when no snapshot shared with the destination account exists, also in
\* a catalog that holds the account's own snapshots, the importer exits with
\* status 1 and has made no copy, delete or publish call.
C10_NoSharedSnapshotIsFatal ==
    (role = "importer" /\ NoSharedSnapshot /\ pc = "exit") =>
        /\ exit_status = 1
        /\ Len(calls) = 0

----
(***************************************************************************)
(* Runs under every configuration (SpecConfig)                             *)
(***************************************************************************)

\* A KMS_KEY_ARN the regex rejects (upper-case key id).
MalformedKmsKeyArn == Chars("arn:aws:kms:r:123456789012:key/0A1B")

\* A TARGET_ACCOUNT the regex rejects (eleven digits and a letter).
MalformedTargetAccount == Chars("21098765432x")

\* Twelve ARABIC-INDIC DIGIT THREE (U+0663), which `\d{12}` matches.
NonAsciiAccount == [d \in 1..12 |-> NonAscii(1635)]

\* A TARGET_ACCOUNT of twelve digits and a newline, which `$` lets pass.
NewlineTargetAccount == TargetAccount \o <<"\n">>

\* A well-formed KMS_KEY_ARN and a newline, which `$` lets pass.
NewlineKmsKeyArn == KmsKeyArn \o <<"\n">>

\* A KMS_KEY_ARN whose account part is written in non-ASCII digits.
NonAsciiKmsKeyArn == ArnKmsHead \o Chars("r:") \o NonAsciiAccount \o Chars(":key/a")

\* One catalog per script, in which every step of the run has work to do.
ConfigCatalog(r) ==
    IF r = "exporter"
    THEN AutoList("a", <<1>>) \o Pick(ExporterManualPool("a"), <<1, 1, 1, 1, 0>>)
    ELSE Pick(ImporterOwnPool("a"), <<1, 1, 0, 1, 0>>)
         \o Pick(ImporterSharedPool("a"), <<1, 1, 1>>)

\* The environment variables unset (the getenv defaults), malformed, or
\* well-formed, and values the two regexes accept beyond the plain ASCII form.
InitConfig ==
    /\ role \in {"exporter", "importer"}
    /\ aws_region \in {<<>>, <<"r">>}
    /\ kms_key_arn \in {<<>>, MalformedKmsKeyArn, KmsKeyArn, NonAsciiKmsKeyArn,
                       NewlineKmsKeyArn}
    /\ target_aws_account \in {Chars("0"), MalformedTargetAccount, TargetAccount,
                              NonAsciiAccount, NewlineTargetAccount}
    /\ debug \in BOOLEAN
    /\ topic_arn \in {"", Topic}
    /\ EXPECTED_SNAPSHOT_COUNT \in 0..MaxExpected
    /\ catalog = ConfigCatalog(role)
    /\ filtered_instances = IF role = "exporter" THEN <<"a">> ELSE <<>>
    /\ deleted = <<>>
    /\ clock = MaxTime + 1
    /\ snapshots_with_shared = <<>>
    /\ snapshots_owned = <<>>
    /\ pc = "start"
    /\ idx = 1
    /\ ready_snapshot_count = 0
    /\ snapshot = <<>>
    /\ copy = <<>>
    /\ percent_progress = -1
    /\ sns_message = ""
    /\ calls = <<>>
    /\ exit_status = 0
    /\ exit_reason = ""
    /\ fault = ""

SpecConfig == InitConfig /\ [][Next]_vars

\* C11: on a configuration error as the specification defines it (no region;
\* a KMS_KEY_ARN that is not arn:aws:kms:<region>:<12-digit-account>:key/<id>;
\* on the source side a TARGET_ACCOUNT that is not a 12-digit account id; no
\* TOPIC_ARN outside debug mode) the process makes no mutating call (copy,
\* share, delete, publish), goes nowhere but to its exit, and exits with a
\* non-zero status.
C11_ConfigErrorExitsBeforeAnyCall ==
    LET TwelveDigits(s) == Len(s) = 12 /\ \A d \in 1..12 : s[d] \in AsciiDigits
        Region(s) == Len(s) > 0 /\ \A j \in 1..Len(s) : s[j] \notin {":", "\n"}
        KeyId(s) == Len(s) > 0 /\ \A j \in 1..Len(s) : s[j] # "\n"
        KeyArnForm(s) ==
            /\ At(s, 1, Chars("arn:aws:kms:"))
            /\ \E i \in 14..Len(s) :
                  /\ Region(SubSeq(s, 13, i - 1))
                  /\ At(s, i, <<":">>)
                  /\ TwelveDigits(SubSeq(s, i + 1, i + 12))
                  /\ At(s, i + 13, Chars(":key/"))
                  /\ KeyId(From(s, i + 18))
        Error == \/ aws_region = <<>>
                 \/ ~KeyArnForm(kms_key_arn)
                 \/ (role = "exporter" /\ ~TwelveDigits(target_aws_account))
                 \/ (topic_arn = "" /\ ~debug)
    IN  Error =>
            /\ Len(calls) = 0
            /\ pc \in {"start", "exit"}
            /\ (pc = "exit" => exit_status # 0 /\ exit_reason = "config")

----
(***************************************************************************)
(* The copy functions applied to bounded identifiers (SpecDerive)          *)
(***************************************************************************)

\* Source identifiers: a head (nothing, one or two colon-separated segments,
\* a shared-snapshot ARN prefix, an ARN prefix with eleven digits, an ARN
\* prefix behind other text, one with its account in non-ASCII digits, one
\* with a newline for its region), a name, and a tail.
SourceHeads ==
    { Chars(h) : h \in {"", "rds:", "some:thing:",
                        "arn:aws:rds:us-east-1:123456789012:snapshot:",
                        "arn:aws:rds:r:12345678901:snapshot:",
                        "x-arn:aws:rds:r:123456789012:snapshot:"} }
    \cup
    { ArnRdsHead \o Chars("r:") \o NonAsciiAccount \o SnapshotTail,
      ArnRdsHead \o Chars("\n:123456789012") \o SnapshotTail }

SourceNames == {"mydb-snap", "mydb-snap-2024", "db"}

SourceTails == {"", "-recrypted", ":z"}

SourceIds == { h \o Chars(n \o t) : h \in SourceHeads, n \in SourceNames, t \in SourceTails }

\* The function is about to be called with a snapshot whose identifier is
\* drawn from SourceIds, the only snapshot of the catalog.
InitDerive ==
    /\ role \in {"exporter", "importer"}
    /\ ValidEnvironment
    /\ debug = TRUE
    /\ topic_arn = ""
    /\ EXPECTED_SNAPSHOT_COUNT = 0
    /\ \E id \in SourceIds :
          LET s == Snap(id, "a", IF role = "exporter" THEN "automated" ELSE "shared",
                        "available", 1)
          IN  /\ catalog = <<s>>
              /\ snapshot = <<s>>
              /\ snapshots_with_shared = IF role = "exporter" THEN <<>> ELSE <<s>>
    /\ filtered_instances = IF role = "exporter" THEN <<"a">> ELSE <<>>
    /\ deleted = <<>>
    /\ clock = MaxTime + 1
    /\ snapshots_owned = <<>>
    /\ pc = "derive"
    /\ idx = 1
    /\ ready_snapshot_count = 0
    /\ copy = <<>>
    /\ percent_progress = -1
    /\ sns_message = ""
    /\ calls = <<>>
    /\ exit_status = 0
    /\ exit_reason = ""
    /\ fault = ""

\* recrypted_copy = recrypt_snapshot_with_new_key(client, snapshot, kms_key_arn)
CallRecrypt ==
    /\ pc = "derive"
    /\ role = "exporter"
    /\ CopyOrRetrieve(snapshot[1], snapshot[1].DBSnapshotIdentifier,
                      RecryptTargetId(snapshot[1].DBSnapshotIdentifier))
    /\ pc' = "e_wait"
    /\ UNCHANGED <<config, deleted, percent_progress, snapshots_with_shared,
                   snapshots_owned, idx, ready_snapshot_count, snapshot, sns_message,
                   exit_status, exit_reason, fault>>

\* local_copy = copy_shared_snapshot_to_local(client, snapshot, kms_key_arn)
CallCopyLocal ==
    /\ pc = "derive"
    /\ role = "importer"
    /\ CopyOrRetrieve(snapshot[1], DBSnapshotArn(snapshot[1]),
                      LocalCopyTargetId(snapshot[1].DBSnapshotIdentifier))
    /\ pc' = "i_wait"
    /\ UNCHANGED <<config, deleted, percent_progress, snapshots_with_shared,
                   snapshots_owned, idx, ready_snapshot_count, snapshot, sns_message,
                   exit_status, exit_reason, fault>>

NextDerive == CallRecrypt \/ CallCopyLocal

SpecDerive == InitDerive /\ [][NextDerive]_vars

\* t is the segment of id between its first colon and its second colon (the
\* end of id when it has one colon only).
IsSecondSegment(id, t) ==
    \E i \in 1..Len(id) : \E j \in (i + 1)..(Len(id) + 1) :
        /\ At(id, i, <<":">>)
        /\ ~Contains(SubSeq(id, 1, i - 1), <<":">>)
        /\ ~Contains(SubSeq(id, i + 1, j - 1), <<":">>)
        /\ (j = Len(id) + 1 \/ At(id, j, <<":">>))
        /\ t = SubSeq(id, i + 1, j - 1)

\* p has the form arn:aws:rds:<region>:<12 digits>:snapshot: (the whole of p
\* matches shared_snapshot_regex): a region of at least one character and
\* without a newline, twelve decimal digits.
IsSharedArnPrefix(p) ==
    /\ At(p, 1, ArnRdsHead)
    /\ Len(p) >= 36
    /\ At(p, Len(p) - 9, SnapshotTail)
    /\ \A d \in 1..12 : p[Len(p) - 22 + d] \in Digits
    /\ At(p, Len(p) - 22, <<":">>)
    /\ ~Contains(SubSeq(p, 13, Len(p) - 23), <<"\n">>)

\* C12: the exporter's target is the segment between the first and the second
\* colon of the source identifier (the whole identifier without a colon) plus
\* "-recrypted"; the importer's target, for a source identifier that starts
\* with a shared-snapshot ARN prefix, is the rest after the prefix plus
\* "-copy"; the two examples of the specification give mydb-snap-copy and
\* thing-recrypted.
C12_TargetIdentifierDerivation ==
    LET id == snapshot[1].DBSnapshotIdentifier
        t  == copy[1].DBSnapshotIdentifier
    IN  /\ pc = "e_wait" =>
              /\ IF Contains(id, <<":">>)
                 THEN \E seg \in {SubSeq(t, 1, Len(t) - 10)} :
                          /\ IsSecondSegment(id, seg)
                          /\ t = seg \o Chars("-recrypted")
                 ELSE t = id \o Chars("-recrypted")
              /\ (id = Chars("some:thing:mydb-snap-2024")
                      => t = Chars("thing-recrypted"))
        /\ pc = "i_wait" =>
              /\ (\E k \in 1..Len(id) : IsSharedArnPrefix(SubSeq(id, 1, k))) =>
                     \E k \in 1..Len(id) :
                         /\ IsSharedArnPrefix(SubSeq(id, 1, k))
                         /\ t = From(id, k + 1) \o Chars("-copy")
              /\ (id = Chars("arn:aws:rds:us-east-1:123456789012:snapshot:mydb-snap")
                      => t = Chars("mydb-snap-copy"))

\* copy_shared_snapshot_to_local was called with the specification's example
\* and returned the copy named mydb-snap-copy.
C12_Witness ==
    /\ pc = "i_wait"
    /\ snapshot[1].DBSnapshotIdentifier =
           Chars("arn:aws:rds:us-east-1:123456789012:snapshot:mydb-snap")
    /\ copy[1].DBSnapshotIdentifier = Chars("mydb-snap-copy")
    /\ Len(CallsOf("copy")) = 1

----
\* Properties of the order of the run's steps (Spec)

\* The step appends a call of the given operation to the log.
Calls(op) == calls' # calls /\ calls'[Len(calls')].op = op

\* C13: in the exporter every share call is made on a copy the catalog
\* reports available, right after the Readiness Waiter returned, and is
\* counted by the same step; ready_snapshot_count is always the number of
\* share calls made and never exceeds the number of filtered instances.
C13_SharedWhenAvailableThenCounted ==
    /\ [](role = "exporter" =>
            /\ ready_snapshot_count = Len(CallsOf("share"))
            /\ ready_snapshot_count <= Len(filtered_instances))
    /\ [][Calls("share") =>
            LET id == calls'[Len(calls')].id
            IN  /\ pc = "e_share"
                /\ id = copy[1].DBSnapshotIdentifier
                /\ DescribeById(catalog, id) # <<>>
                /\ DescribeById(catalog, id)[1].Status = "available"
                /\ ready_snapshot_count' = ready_snapshot_count + 1]_vars

\* The exporter went through validation having shared and counted the copies
\* of two instances.
C13_Witness ==
    /\ role = "exporter"
    /\ ReachedValidation
    /\ ready_snapshot_count = 2
    /\ Len(CallsOf("share")) = 2
    /\ CallsOf("share")[1].id # CallsOf("share")[2].id

----
(***************************************************************************)
(* Termination (SpecLive)                                                  *)
(***************************************************************************)

\* The steps of the process itself, without those of the service.
ProcessNext ==
    \/ ConfigError
    \/ ExporterStart
    \/ ExporterLatest
    \/ ExporterRecrypt
    \/ ExporterWait
    \/ ExporterShare
    \/ ExporterPrune
    \/ ExporterValidate
    \/ ImporterStart
    \/ ImporterSkip
    \/ ImporterCopy
    \/ ImporterWait
    \/ ImporterPruneStart
    \/ ImporterPrune
    \/ ImporterValidate

\* Catalogs in which the run requests a new copy and has several snapshots
\* to prune.
LiveCatalogs(r) ==
    IF r = "exporter"
    THEN { AutoList("a", <<1>>) \o Pick(ExporterManualPool("a"), f) :
             f \in {<<0, 1, 2, 1, 2>>, <<1, 1, 1, 1, 0>>} }
    ELSE { Pick(ImporterOwnPool("a"), f) \o Pick(ImporterSharedPool("a"), <<1, 1, 1>>) :
             f \in {<<1, 2, 1, 1, 2>>, <<0, 0, 0, 1, 0>>} }

InitLive ==
    /\ role \in {"exporter", "importer"}
    /\ ValidEnvironment
    /\ debug \in BOOLEAN
    /\ topic_arn = ""
    /\ EXPECTED_SNAPSHOT_COUNT \in 0..MaxExpected
    /\ catalog \in LiveCatalogs(role)
    /\ filtered_instances = IF role = "exporter" THEN <<"a">> ELSE <<>>
    /\ deleted = <<>>
    /\ clock = MaxTime + 1
    /\ snapshots_with_shared = <<>>
    /\ snapshots_owned = <<>>
    /\ pc = "start"
    /\ idx = 1
    /\ ready_snapshot_count = 0
    /\ snapshot = <<>>
    /\ copy = <<>>
    /\ percent_progress = -1
    /\ sns_message = ""
    /\ calls = <<>>
    /\ exit_status = 0
    /\ exit_reason = ""
    /\ fault = ""

\* The single thread of the script keeps executing, and the service does not
\* leave a snapshot in creation forever: it completes it unless it fails it.
SpecLive ==
    /\ InitLive
    /\ [][Next]_vars
    /\ WF_vars(ProcessNext)
    /\ WF_vars(SnapshotCompletes)

\* C14: a run in which no awaited copy fails reaches its exit (every wait and
\* every pruning loop ends); once an awaited copy has failed, the run never
\* reaches pruning, validation or its exit.
C14_TerminatesUnlessCopyFails ==
    /\ <>(pc = "exit" \/ AwaitedFailed)
    /\ [](AwaitedFailed => [](pc \notin {"e_prune", "i_prune", "exit"}))

\* A run ended after a wait on a copy it had requested and after a pruning
\* loop that deleted snapshots.
C14_Witness ==
    /\ pc = "exit"
    /\ exit_reason \in {"success", "count_mismatch"}
    /\ \E k \in 1..Len(calls) : calls[k].op = "copy" /\ calls[k].note = ""
    /\ Len(CallsOf("delete")) >= 2

\* The instance of the snapshot a copy, share or delete call targets.
CallInstance(c) == DescribeById(catalog \o deleted, c.id)[1].DBInstanceIdentifier

\* The copy, share and delete calls made so far, in order.
InstanceCalls == SelectSeq(calls, LAMBDA c : c.op # "publish")

\* Position of an instance in the instance listing.
ListingPosition(db_id) ==
    CHOOSE i \in 1..Len(filtered_instances) : filtered_instances[i] = db_id

\* C15: the exporter's copy, share and delete calls target snapshots of the
\* listed instances and follow the order of the instance listing: a call for
\* an instance is never followed by a call for an instance listed before it,
\* so the calls of one instance are never interleaved with another's.
C15_InstancesOneAtATimeInListingOrder ==
    role = "exporter" =>
        \A j \in 1..Len(InstanceCalls) :
            /\ CallInstance(InstanceCalls[j]) \in Range(filtered_instances)
            /\ \A i \in 1..(j - 1) :
                  ListingPosition(CallInstance(InstanceCalls[i]))
                      <= ListingPosition(CallInstance(InstanceCalls[j]))

\* The exporter copied, shared and pruned for b and then for a, as listed.
C15_Witness ==
    /\ role = "exporter"
    /\ filtered_instances = <<"b", "a">>
    /\ pc = "exit"
    /\ \E k \in 3..(Len(InstanceCalls) - 2) :
          /\ \A i \in 1..k : CallInstance(InstanceCalls[i]) = "b"
          /\ \A i \in (k + 1)..Len(InstanceCalls) : CallInstance(InstanceCalls[i]) = "a"
          /\ InstanceCalls[k].op = "delete"
          /\ InstanceCalls[k + 1].op = "copy"

----
\* Properties of the pruning loops (Spec)

\* The instance whose pruning loop is running.
PrunedInstance ==
    IF role = "exporter" THEN filtered_instances[idx] ELSE snapshots_owned[idx][1]

\* The step calls get_oldest_manual_recrypted_rds_snapshots: it is the body
\* of a pruning loop, which deletes what the finder returned or dies in it.
FinderInvoked ==
    /\ pc \in {"e_prune", "i_prune"}
    /\ (Calls("delete") \/ fault' = "TypeError")

\* C16: whenever the oldest finder is invoked, the retention count of the
\* same instance is above 2 and a manual snapshot of that instance carries
\* the "recrypted" marker, which the finder returns; the finder never fails
\* for want of a match.
C16_FinderInvokedOnlyWithAMatch ==
    /\ [](fault # "TypeError")
    /\ [][FinderInvoked =>
            /\ Len(Matching(catalog, PrunedInstance)) > 2
            /\ \E s \in Range(catalog) :
                  /\ s.DBInstanceIdentifier = PrunedInstance
                  /\ s.SnapshotType = "manual"
                  /\ Contains(s.DBSnapshotIdentifier, Recrypted)
            /\ Len(snapshot') = 1
            /\ Contains(snapshot'[1].DBSnapshotIdentifier, Recrypted)
            /\ snapshot'[1].DBInstanceIdentifier = PrunedInstance]_vars

\* The importer's pruning loop has invoked the finder and deleted what it
\* returned.
C16_Witness ==
    /\ role = "importer"
    /\ pc = "i_prune"
    /\ Len(CallsOf("delete")) > 0
    /\ Len(snapshot) = 1
    /\ calls[Len(calls)].op = "delete"
    /\ calls[Len(calls)].id = snapshot[1].DBSnapshotIdentifier

----
\* Properties of the importer's copy loop (Spec)

\* The identifier ends with "recrypted" (as `recrypted$` finds it) and
\* contains a shared-snapshot ARN prefix
\* (arn:aws:rds:<region>:<12 digits>:snapshot:).
FollowsSharedConvention(id) ==
    /\ EndsWith(id, Recrypted)
    /\ \E i \in 1..Len(id) :
          /\ At(id, i, ArnRdsHead)
          /\ \E k \in (i + 35)..Len(id) :
                At(id, k, <<":">>) /\ IsSharedArnPrefix(SubSeq(id, i, k))

\* The listed snapshots that follow the convention, in listing order.
ListedFollowingConvention ==
    SelectSeq(snapshots_with_shared,
              LAMBDA s : FollowsSharedConvention(s.DBSnapshotIdentifier))

\* C17: the importer's copy requests are, in listing order and once each,
\* for the listed snapshots whose identifier ends with "recrypted" and
\* contains the shared-snapshot ARN prefix, and for no other; at the final
\* validation all of them have been copied and ready_snapshot_count is
\* their number. (The copy requests are compared with the listing each time
\* one has been made, and at the validation.)
C17_CopiesExactlyTheFilteredListing ==
    role = "importer" =>
        /\ ready_snapshot_count <= Len(CallsOf("copy"))
        /\ (pc = "i_wait" \/ ReachedValidation) =>
              LET copied == CallsOf("copy")
                  listed == ListedFollowingConvention
              IN  /\ Len(copied) <= Len(listed)
                  /\ \A k \in 1..Len(copied) :
                        copied[k].arg = listed[k].DBSnapshotIdentifier
                  /\ ReachedValidation =>
                        /\ Len(copied) = Len(listed)
                        /\ ready_snapshot_count = Len(listed)

\* The importer went through validation having copied two listed snapshots
\* and skipped a shared one that does not end with "recrypted" and an own one
\* that does.
C17_Witness ==
    /\ role = "importer"
    /\ ReachedValidation
    /\ ready_snapshot_count = 2
    /\ Len(CallsOf("copy")) = 2
    /\ \E s \in Range(snapshots_with_shared) :
          s.SnapshotType = "shared" /\ ~EndsWithRecrypted(s.DBSnapshotIdentifier)
    /\ \E s \in Range(snapshots_with_shared) :
          s.SnapshotType = "manual" /\ EndsWithRecrypted(s.DBSnapshotIdentifier)

----
\* Frame of the pruning (Spec)

\* C18: every snapshot a run deletes is a member of the RetentionSet of the
\* instance being pruned: a manual snapshot of that instance whose identifier
\* ends with "-recrypted" (exporter) or "-recrypted-copy" (importer).
C18_DeletesOnlyRetentionSetMembers ==
    \A k \in 1..Len(deleted) :
        /\ deleted[k].SnapshotType = "manual"
        /\ EndsWith(deleted[k].DBSnapshotIdentifier, RetentionSuffix)
        /\ deleted[k].DBInstanceIdentifier = CallsOf("delete")[k].arg

\* C19: when the run has gone through validation, every snapshot it copied or
\* retrieved through the already-exists path (each was waited for and counted
\* in ready_snapshot_count) is still in the catalog.
C19_CountedSnapshotsSurvivePruning ==
    ReachedValidation =>
        /\ ready_snapshot_count = Len(CallsOf("copy"))
        /\ \A k \in 1..Len(CallsOf("copy")) :
              DescribeById(catalog, CallsOf("copy")[k].id) # <<>>

----
\* The naming conventions of the two scripts (Spec)

\* The snapshot a copy call created or retrieved.
CopyOf(c) == DescribeById(catalog \o deleted, c.id)[1]

\* C20: every snapshot the exporter copies (and shares) has an identifier
\* ending in "-recrypted" and, seen under its ARN, passes the importer's
\* filter; every local copy of the importer has an identifier containing
\* "recrypted-copy" and is a manual snapshot of the source's instance, which
\* the importer's retention count counts and the oldest finder matches.
\* (Examined each time a copy has been requested, and at the exit.)
C20_NamingConventionsCompose ==
    pc \in {"e_wait", "i_wait", "exit"} =>
    \A k \in 1..Len(CallsOf("copy")) :
        LET c == CallsOf("copy")[k]
        IN  IF role = "exporter"
            THEN /\ EndsWith(c.id, RecryptedSuffix)
                 /\ PassesSharedFilter(SharedArnPrefix \o c.id)
                 /\ DBSnapshotArn(CopyOf(c)) = SharedArnPrefix \o c.id
            ELSE /\ Contains(c.id, RecryptedCopy)
                 /\ CopyOf(c).SnapshotType = "manual"
                 /\ (DescribeById(catalog, c.id) # <<>> =>
                       /\ get_owned_rds_snapshots_count(
                              catalog, CopyOf(c).DBInstanceIdentifier) >= 1
                       /\ CopyOf(c) \in Range(Matching(catalog,
                                                       CopyOf(c).DBInstanceIdentifier))
                       /\ Len(get_oldest_manual_recrypted_rds_snapshots(
                                  catalog, CopyOf(c).DBInstanceIdentifier)) = 1)

\* The exporter has created a copy and shared it.
C20_Witness ==
    /\ role = "exporter"
    /\ Len(CallsOf("share")) > 0
    /\ \E k \in 1..Len(calls) :
          /\ calls[k].op = "copy"
          /\ calls[k].note = ""
          /\ calls[k].id = CallsOf("share")[1].id

====
